---- MODULE Spec2Model ----
\* A model of the storage engine of DBEngine: the slotted Page (page.h), the
\* DiskManager (diskmanager.cpp) and the BufferPool (bufferpool.cpp).
EXTENDS Integers, Sequences, FiniteSets, TLC

\* ------------------------------------------------------------------ bounds
\* Number of frames of the pool (the constructor's poolSize).
PoolSize == 2
\* Pages in the backing file when the DiskManager of Spec is constructed: the
\* callers of the pool use the page ids 0..InitPages, the last of which is not
\* in the file.
InitPages == 3
\* fixPage on a resident page is called only while its pinCount < MaxPin.
MaxPin == 2
\* steady_clock::now() takes values 0..MaxTime.
MaxTime == 1
\* Only the first MaxData bytes of Page::data are used by the callers.
MaxData == 1
\* At most MaxMods record insertions by the callers of Spec.
MaxMods == 1
\* The file of DiskSpec grows to at most MaxDiskPages pages.
MaxDiskPages == 2
\* A page of PageSpec gets at most MaxSlots records.
MaxSlots == 3
\* The callers of FullPageSpec make at most MaxPageOps calls.
MaxPageOps == 4
\* The callers of OffsetSpec use page ids within MaxDelta of the limits.
MaxDelta == 8

\* --------------------------------------------------------------- constants
PAGE_SIZE == 4096
\* sizeof(PageHeader): int, bool (+3), long, int, int on an LP64 build.
HeaderSize == 24
\* sizeof(Slot): int, int, bool (+3).
SlotSize == 12

NULL == -1

PageIds == 0..InitPages
FrameIds == 0..(PoolSize - 1)
\* The records the callers of the pool insert.
Records == {<<1>>}

\* ------------------------------------------------------------------- Page
\* Page::Page(): the empty page. data holds the prefix data[0..MaxData) of the
\* data area; the operations below work on whatever prefix a page holds.
EmptyPage ==
    [pageId |-> -1, dirty |-> FALSE, lsn |-> 0, freeSpaceOffset |-> 0,
     numberOfSlots |-> 0, data |-> [i \in 1..MaxData |-> 0],
     slotDirectory |-> <<>>]

setPageId(page, id) == [page EXCEPT !.pageId = id]

getFreeSpace(page) ==
    LET dataAreaSize == PAGE_SIZE - HeaderSize
        slotDirStart == dataAreaSize - page.numberOfSlots * SlotSize
    IN  slotDirStart - page.freeSpaceOffset

\* insertRecord refusing a record that fits exactly.
insertRecordStrict(page, record) ==
    LET length == Len(record)
        requiredSpace == length + SlotSize
    IN  IF getFreeSpace(page) <= requiredSpace
        THEN [ret |-> -1, page |-> page]
        ELSE [ret |-> page.numberOfSlots,
              page |-> [page EXCEPT
                          !.data = [i \in DOMAIN page.data |->
                                      IF /\ i > page.freeSpaceOffset
                                         /\ i <= page.freeSpaceOffset + length
                                      THEN record[i - page.freeSpaceOffset]
                                      ELSE page.data[i]],
                          !.slotDirectory =
                              Append(page.slotDirectory,
                                     [offset |-> page.freeSpaceOffset,
                                      length |-> length, isValid |-> TRUE]),
                          !.numberOfSlots = page.numberOfSlots + 1,
                          !.freeSpaceOffset = page.freeSpaceOffset + length,
                          !.dirty = TRUE]]

\* insertRecord: [ret, page]; ret is the slot id or -1.
insertRecord(page, record) ==
    LET length == Len(record)
        requiredSpace == length + SlotSize
    IN  IF getFreeSpace(page) < requiredSpace
        THEN [ret |-> -1, page |-> page]
        ELSE LET newSlot == [offset |-> page.freeSpaceOffset, length |-> length,
                             isValid |-> TRUE]
                 p2 == [page EXCEPT
                          !.data = [i \in DOMAIN page.data |->
                                      IF /\ i > page.freeSpaceOffset
                                         /\ i <= page.freeSpaceOffset + length
                                      THEN record[i - page.freeSpaceOffset]
                                      ELSE page.data[i]],
                          !.slotDirectory = Append(page.slotDirectory, newSlot),
                          !.numberOfSlots = page.numberOfSlots + 1,
                          !.freeSpaceOffset = page.freeSpaceOffset + length,
                          !.dirty = TRUE]
             IN  [ret |-> p2.numberOfSlots - 1, page |-> p2]

\* getRecord: [ret, bytes]; ret is the length or -1.
getRecord(page, slotId) ==
    IF slotId < 0 \/ slotId >= page.numberOfSlots
    THEN [ret |-> -1, bytes |-> <<>>]
    ELSE LET slot == page.slotDirectory[slotId + 1]
         IN  IF ~slot.isValid
             THEN [ret |-> -1, bytes |-> <<>>]
             ELSE [ret |-> slot.length,
                   bytes |-> [i \in 1..slot.length |-> page.data[slot.offset + i]]]

\* deleteRecord without the loop that lowers the offsets of the later slots.
deleteRecordNoShift(page, slotId) ==
    IF slotId < 0 \/ slotId >= page.numberOfSlots
    THEN [ret |-> FALSE, page |-> page]
    ELSE LET slotToDelete == page.slotDirectory[slotId + 1]
             recordOffset == slotToDelete.offset
             recordLength == slotToDelete.length
             bytesAfter == page.freeSpaceOffset - (recordOffset + recordLength)
             n2 == page.numberOfSlots - 1
         IN  IF ~slotToDelete.isValid
             THEN [ret |-> FALSE, page |-> page]
             ELSE [ret |-> TRUE,
                   page |-> [page EXCEPT
                      !.data = [i \in DOMAIN page.data |->
                                  IF /\ bytesAfter > 0
                                     /\ i > recordOffset
                                     /\ i <= recordOffset + bytesAfter
                                  THEN page.data[i + recordLength]
                                  ELSE page.data[i]],
                      !.freeSpaceOffset = @ - recordLength,
                      !.slotDirectory =
                          [i \in 1..n2 |-> IF i <= slotId THEN page.slotDirectory[i]
                                           ELSE page.slotDirectory[i + 1]],
                      !.numberOfSlots = n2,
                      !.dirty = TRUE]]

\* deleteRecord without the memmove of the bytes after the record.
deleteRecordNoMove(page, slotId) ==
    IF slotId < 0 \/ slotId >= page.numberOfSlots
    THEN [ret |-> FALSE, page |-> page]
    ELSE LET slotToDelete == page.slotDirectory[slotId + 1]
             recordLength == slotToDelete.length
             n2 == page.numberOfSlots - 1
         IN  IF ~slotToDelete.isValid
             THEN [ret |-> FALSE, page |-> page]
             ELSE [ret |-> TRUE,
                   page |-> [page EXCEPT
                      !.freeSpaceOffset = @ - recordLength,
                      !.slotDirectory =
                          [i \in 1..n2 |-> IF i <= slotId THEN page.slotDirectory[i]
                                           ELSE [page.slotDirectory[i + 1] EXCEPT
                                                   !.offset = @ - recordLength]],
                      !.numberOfSlots = n2,
                      !.dirty = TRUE]]

\* deleteRecord: [ret, page].
deleteRecord(page, slotId) ==
    IF slotId < 0 \/ slotId >= page.numberOfSlots
    THEN [ret |-> FALSE, page |-> page]
    ELSE LET slotToDelete == page.slotDirectory[slotId + 1]
             recordOffset == slotToDelete.offset
             recordLength == slotToDelete.length
             freeSpaceEnd == page.freeSpaceOffset
             bytesAfter == freeSpaceEnd - (recordOffset + recordLength)
             moved == [i \in DOMAIN page.data |->
                         IF /\ bytesAfter > 0
                            /\ i > recordOffset
                            /\ i <= recordOffset + bytesAfter
                         THEN page.data[i + recordLength]
                         ELSE page.data[i]]
             n2 == page.numberOfSlots - 1
             erased == [i \in 1..n2 |->
                          IF i <= slotId THEN page.slotDirectory[i]
                          ELSE [page.slotDirectory[i + 1] EXCEPT
                                  !.offset = @ - recordLength]]
         IN  IF ~slotToDelete.isValid
             THEN [ret |-> FALSE, page |-> page]
             ELSE [ret |-> TRUE,
                   page |-> [page EXCEPT !.data = moved,
                                         !.freeSpaceOffset = @ - recordLength,
                                         !.slotDirectory = erased,
                                         !.numberOfSlots = n2,
                                         !.dirty = TRUE]]

\* serialize: the PAGE_SIZE image: header, the used prefix of data, and the
\* slot directory packed at the tail; the bytes in between are not written.
serialize(page) ==
    [header |-> [pageId |-> page.pageId, dirty |-> page.dirty, lsn |-> page.lsn,
                 freeSpaceOffset |-> page.freeSpaceOffset,
                 numberOfSlots |-> page.numberOfSlots],
     records |-> SubSeq(page.data, 1, page.freeSpaceOffset),
     slots |-> SubSeq(page.slotDirectory, 1, page.numberOfSlots)]

\* deserialize without the resize and copy of the slot directory.
deserializeKeepSlots(page, buffer) ==
    [pageId |-> buffer.header.pageId, dirty |-> buffer.header.dirty,
     lsn |-> buffer.header.lsn,
     freeSpaceOffset |-> buffer.header.freeSpaceOffset,
     numberOfSlots |-> buffer.header.numberOfSlots,
     data |-> [i \in DOMAIN page.data |->
                 IF i <= buffer.header.freeSpaceOffset THEN buffer.records[i]
                 ELSE page.data[i]],
     slotDirectory |-> page.slotDirectory]

\* deserialize into an existing Page object: data beyond freeSpaceOffset keeps
\* whatever the object held before.
deserialize(page, buffer) ==
    [pageId |-> buffer.header.pageId, dirty |-> buffer.header.dirty,
     lsn |-> buffer.header.lsn,
     freeSpaceOffset |-> buffer.header.freeSpaceOffset,
     numberOfSlots |-> buffer.header.numberOfSlots,
     data |-> [i \in DOMAIN page.data |->
                 IF i <= buffer.header.freeSpaceOffset THEN buffer.records[i]
                 ELSE page.data[i]],
     slotDirectory |-> buffer.slots]

\* What a caller can observe of a page: the header fields, the record bytes
\* data[0..freeSpaceOffset) and the slot directory.
Observable(page) ==
    [pageId |-> page.pageId, freeSpaceOffset |-> page.freeSpaceOffset,
     numberOfSlots |-> page.numberOfSlots,
     records |-> SubSeq(page.data, 1, page.freeSpaceOffset),
     slotDirectory |-> page.slotDirectory]

\* ------------------------------------------------------------ DiskManager
\* `int offset = pageId * PAGE_SIZE` in 32-bit int arithmetic, in units of
\* PAGE_SIZE bytes: the product wraps modulo 2^32, so the page index the stream
\* seeks to wraps modulo 2^32 / PAGE_SIZE into [-2^31 / PAGE_SIZE, 2^31 / PAGE_SIZE).
IntOffset(pageId) ==
    LET wrap == (1024 * 4096) \div (PAGE_SIZE \div 1024)
    IN  ((pageId + wrap \div 2) % wrap) - wrap \div 2

\* The offset readPage seeks to, in units of PAGE_SIZE bytes.
readOffset(pageId) == IntOffset(pageId)

\* The offset writePage seeks to for pageId <= numPages, in units of PAGE_SIZE
\* bytes.
writeOffset(numPages, pageId) ==
    IF pageId = numPages THEN IntOffset(numPages) ELSE IntOffset(pageId)

\* An image of PAGE_SIZE zero bytes (a hole of the file).
ZeroImage ==
    [header |-> [pageId |-> 0, dirty |-> FALSE, lsn |-> 0, freeSpaceOffset |-> 0,
                 numberOfSlots |-> 0],
     records |-> <<>>, slots |-> <<>>]

\* The file after PAGE_SIZE bytes are written at byte position
\* offset * PAGE_SIZE.
FileWrite(file, offset, buffer) ==
    LET idx == offset
        n == IF idx + 1 > Len(file) THEN idx + 1 ELSE Len(file)
    IN  [i \in 1..n |-> IF i = idx + 1 THEN buffer
                        ELSE IF i <= Len(file) THEN file[i] ELSE ZeroImage]

\* DiskManager::DiskManager on a file: numPages from the file size, a fresh
\* stream (no error bit set).
OpenDisk(file) == [file |-> file, numPages |-> Len(file), fail |-> FALSE]

\* readPage with a stream whose error state is cleared after a failure.
readPageRecovering(dm, pageId, page) ==
    LET offset == readOffset(pageId)
    IN  IF offset < 0 \/ offset + 1 > Len(dm.file)
        THEN [ok |-> FALSE, dm |-> dm, page |-> page]
        ELSE [ok |-> TRUE, dm |-> dm,
              page |-> deserialize(page, dm.file[offset + 1])]

\* readPage: [ok, dm, page]. seekg and read set failbit on failure and nothing
\* clears it: with failbit set seekg does nothing and `!fileStream_` holds.
readPage(dm, pageId, page) ==
    LET offset == readOffset(pageId)
    IN  IF dm.fail
        THEN [ok |-> FALSE, dm |-> dm, page |-> page]
        ELSE IF offset < 0
        THEN [ok |-> FALSE, dm |-> [dm EXCEPT !.fail = TRUE], page |-> page]
        ELSE IF offset + 1 > Len(dm.file)
        THEN [ok |-> FALSE, dm |-> [dm EXCEPT !.fail = TRUE], page |-> page]
        ELSE [ok |-> TRUE, dm |-> dm,
              page |-> deserialize(page, dm.file[offset + 1])]

\* writePage: [ok, dm].
writePage(dm, pageId, page) ==
    LET offset == writeOffset(dm.numPages, pageId)
    IN  IF pageId > dm.numPages
        THEN [ok |-> FALSE, dm |-> dm]
        ELSE IF dm.fail
        THEN [ok |-> FALSE, dm |-> dm]
        ELSE IF offset < 0
        THEN [ok |-> FALSE, dm |-> [dm EXCEPT !.fail = TRUE]]
        ELSE [ok |-> TRUE,
              dm |-> [dm EXCEPT
                        !.file = FileWrite(dm.file, offset, serialize(page)),
                        !.numPages = IF pageId = dm.numPages THEN @ + 1 ELSE @]]

\* allocateNewPage returning numPages as it is after the write.
allocateNewPageOffByOne(dm) ==
    LET newPage == setPageId(EmptyPage, dm.numPages)
        w == writePage(dm, dm.numPages, newPage)
    IN  IF w.ok THEN [ret |-> w.dm.numPages, dm |-> w.dm]
        ELSE [ret |-> -1, dm |-> w.dm]

\* allocateNewPage: [ret, dm]; ret is the new page id or -1.
allocateNewPage(dm) ==
    LET newPage == setPageId(EmptyPage, dm.numPages)
        w == writePage(dm, dm.numPages, newPage)
    IN  IF w.ok THEN [ret |-> w.dm.numPages - 1, dm |-> w.dm]
        ELSE [ret |-> -1, dm |-> w.dm]

getNumberOfPages(dm) == dm.numPages

\* ------------------------------------------------------------- BufferPool
VARIABLES
    disk,        \* the DiskManager: [file, numPages, fail]
    frames,      \* frames_: frame index -> [page, pinCount, isDirty, lastAccessTime]
    pageTable,   \* pageTable_: page id -> frame index
    clock,       \* the last value steady_clock::now() returned
    last,        \* the last call: [op, pageId, ret, path]
    mods,        \* number of record insertions made so far
    uncommitted, \* page ids modified since their last unfixPage(.., true)
    committed,   \* page id -> its content at its last unfixPage(.., true)
    q,           \* the Page object the caller of readPage passes
    p,           \* the Page the caller of the last writePage passed
    allocs,      \* [n, k, appends]: numPages at construction, successful
                 \* allocateNewPage calls and appending writePage calls since
    held         \* [paired, n]: paired holds while no unfixPage was made
                 \* without a fix to match; then n[id] is the number of
                 \* successful fixPage(id) calls not yet unfixed

vars == <<disk, frames, pageTable, clock, last, mods, uncommitted, committed, q,
          p, allocs, held>>

poolVars == <<frames, pageTable, clock, mods, uncommitted, committed, held>>

\* steady_clock::now(): monotonic, so two calls may return the same value.
Now == {t \in {clock, clock + 1} : t <= MaxTime}

\* FrameLess with the access times compared the wrong way round.
FrameLessNewest(a, b) ==
    IF a.pinCount = 0 /\ b.pinCount # 0 THEN TRUE
    ELSE IF a.pinCount # 0 /\ b.pinCount = 0 THEN FALSE
    ELSE a.lastAccessTime > b.lastAccessTime

\* The comparator findVictim hands to std::min_element.
FrameLess(a, b) ==
    IF a.pinCount = 0 /\ b.pinCount # 0 THEN TRUE
    ELSE IF a.pinCount # 0 /\ b.pinCount = 0 THEN FALSE
    ELSE a.lastAccessTime < b.lastAccessTime

\* std::min_element over frs[i..PoolSize-1], smallest being the best so far.
RECURSIVE MinElement(_, _, _)
MinElement(frs, i, smallest) ==
    IF i >= PoolSize THEN smallest
    ELSE MinElement(frs, i + 1,
                    IF FrameLess(frs[i], frs[smallest]) THEN i ELSE smallest)

\* findVictim choosing by access time alone, pinned frames included.
findVictimIgnorePin(frs) ==
    IF PoolSize = 0 THEN -1
    ELSE CHOOSE i \in FrameIds :
           \A j \in FrameIds :
             \/ frs[i].lastAccessTime < frs[j].lastAccessTime
             \/ frs[i].lastAccessTime = frs[j].lastAccessTime /\ i <= j

\* findVictim without the final test that the victim is unpinned.
findVictimUnchecked(frs) ==
    IF PoolSize = 0 THEN -1 ELSE MinElement(frs, 1, 0)

findVictim(frs) ==
    IF PoolSize = 0 THEN -1
    ELSE LET victim == MinElement(frs, 1, 0)
         IN  IF frs[victim].pinCount = 0 THEN victim ELSE -1

\* std::find_if for an empty frame: the first unpinned frame with page id -1,
\* or -1 (frames_.end()).
FindEmpty(frs) ==
    LET empties == {i \in FrameIds : frs[i].pinCount = 0 /\ frs[i].page.pageId = -1}
    IN  IF empties = {} THEN -1
        ELSE CHOOSE i \in empties : \A j \in empties : i <= j

\* pageTable_.erase(id)
Erase(table, id) == [k \in DOMAIN table \ {id} |-> table[k]]

\* pageTable_[id] = index
Install(table, id, index) ==
    [k \in DOMAIN table \cup {id} |-> IF k = id THEN index ELSE table[k]]

\* The part of fixPage shared by the empty-frame and the eviction path: read the
\* page into frame index and, when the read succeeds, pin and install it.
LoadInto(frs, table, dm, index, pageId, isWrite, t, path) ==
    LET r == readPage(dm, pageId, frs[index].page)
    IN  IF ~r.ok
        THEN [ret |-> NULL, frames |-> frs, pageTable |-> table, disk |-> r.dm,
              path |-> path]
        ELSE [ret |-> index,
              frames |-> [frs EXCEPT ![index] =
                            [page |-> setPageId(r.page, pageId), pinCount |-> 1,
                             isDirty |-> isWrite, lastAccessTime |-> t]],
              pageTable |-> Install(table, pageId, index),
              disk |-> r.dm, path |-> path]

\* fixPage: [ret, frames, pageTable, disk, path]; ret is the frame whose page
\* is returned or NULL; t is what steady_clock::now() returns; path names the
\* branch taken: "hit", "empty" (an empty frame), "evict" (a victim was
\* chosen) or "full" (findVictim returned -1).
fixPage(frs, table, dm, pageId, isWrite, t) ==
    IF pageId \in DOMAIN table
    THEN LET index == table[pageId]
         IN  [ret |-> index,
              frames |-> [frs EXCEPT ![index].pinCount = @ + 1,
                                     ![index].lastAccessTime = t,
                                     ![index].isDirty = @ \/ isWrite],
              pageTable |-> table, disk |-> dm, path |-> "hit"]
    ELSE LET empty == FindEmpty(frs)
         IN  IF empty # -1
             THEN LoadInto(frs, table, dm, empty, pageId, isWrite, t, "empty")
             ELSE LET index == findVictim(frs)
                  IN  IF index = -1
                      THEN [ret |-> NULL, frames |-> frs, pageTable |-> table,
                            disk |-> dm, path |-> "full"]
                      ELSE LET victimPageId == frs[index].page.pageId
                               dm2 == IF frs[index].isDirty /\ victimPageId # -1
                                      THEN writePage(dm, victimPageId,
                                                     frs[index].page).dm
                                      ELSE dm
                           IN  LoadInto(frs, Erase(table, victimPageId), dm2,
                                        index, pageId, isWrite, t, "evict")

\* unfixPage without the test pinCount > 0.
unfixPageUnderflow(frs, table, pageId, isDirty, t) ==
    IF pageId \in DOMAIN table
    THEN LET index == table[pageId]
         IN  [frs EXCEPT ![index].pinCount = @ - 1,
                         ![index].isDirty = @ \/ isDirty,
                         ![index].lastAccessTime = t]
    ELSE frs

\* unfixPage: [frames]; pageId is the id read from the handle.
unfixPage(frs, table, pageId, isDirty, t) ==
    IF pageId \in DOMAIN table
    THEN LET index == table[pageId]
         IN  [frs EXCEPT ![index].pinCount = IF @ > 0 THEN @ - 1 ELSE @,
                         ![index].isDirty = @ \/ isDirty,
                         ![index].lastAccessTime = t]
    ELSE frs

\* flushAllPages over frames i..PoolSize-1: [frames, disk].
RECURSIVE FlushFrom(_, _, _)
FlushFrom(frs, dm, i) ==
    IF i >= PoolSize THEN [frames |-> frs, disk |-> dm]
    ELSE IF frs[i].isDirty /\ frs[i].pinCount = 0 /\ frs[i].page.pageId # -1
    THEN FlushFrom([frs EXCEPT ![i].isDirty = FALSE],
                   writePage(dm, frs[i].page.pageId, frs[i].page).dm, i + 1)
    ELSE FlushFrom(frs, dm, i + 1)

flushAllPages(frs, dm) == FlushFrom(frs, dm, 0)

\* The file a DiskManager of Spec opens: InitPages pages, page k as
\* allocateNewPage wrote it.
RECURSIVE AllocatedFile(_)
AllocatedFile(n) ==
    IF n = 0 THEN <<>>
    ELSE allocateNewPage(OpenDisk(AllocatedFile(n - 1))).dm.file

\* No fixPage outstanding, every unfixPage so far matched by a fixPage.
NoneHeld == [paired |-> TRUE, n |-> [id \in PageIds |-> 0]]

\* An unfixPage was made that no successful fixPage matches.
Unpaired == [paired |-> FALSE, n |-> [id \in PageIds |-> 0]]

Call(op, pageId, ret, path) ==
    [op |-> op, pageId |-> pageId, ret |-> ret, path |-> path]

\* BufferPool::BufferPool over a DiskManager just opened.
Init ==
    /\ disk = OpenDisk(AllocatedFile(InitPages))
    /\ frames = [i \in FrameIds |->
                   [page |-> EmptyPage, pinCount |-> 0, isDirty |-> FALSE,
                    lastAccessTime |-> 0]]
    /\ pageTable = [k \in {} |-> 0]
    /\ clock = 0
    /\ last = Call("BufferPool", -1, -1, "")
    /\ mods = 0
    /\ uncommitted = {}
    /\ committed = [k \in {} |-> 0]
    /\ q = EmptyPage
    /\ p = EmptyPage
    /\ allocs = [n |-> InitPages, k |-> 0, appends |-> 0]
    /\ held = NoneHeld

\* The pool exists until its destructor has run.
Alive == last.op # "~BufferPool"

FixPage(pageId, isWrite) ==
    /\ Alive
    /\ pageId \in DOMAIN pageTable => frames[pageTable[pageId]].pinCount < MaxPin
    /\ \E t \in Now :
         LET r == fixPage(frames, pageTable, disk, pageId, isWrite, t)
         IN  /\ frames' = r.frames
             /\ pageTable' = r.pageTable
             /\ disk' = r.disk
             /\ clock' = IF r.ret = NULL THEN clock ELSE t
             /\ last' = Call("fixPage", pageId, r.ret, r.path)
             /\ held' = IF r.ret # NULL /\ held.paired
                         THEN [held EXCEPT !.n[pageId] = @ + 1] ELSE held
    /\ UNCHANGED <<mods, uncommitted, committed, q, p, allocs>>

\* The caller passes a handle whose page id is pageId. A caller that has
\* modified the page unfixes it with isDirty = true.
UnfixPage(pageId, isDirty) ==
    /\ Alive
    /\ pageId \in uncommitted => isDirty
    /\ \E t \in Now :
         /\ frames' = unfixPage(frames, pageTable, pageId, isDirty, t)
         /\ clock' = IF pageId \in DOMAIN pageTable THEN t ELSE clock
    /\ last' = Call("unfixPage", pageId, -1, "")
    /\ uncommitted' = uncommitted \ {pageId}
    /\ committed' =
         IF /\ isDirty
            /\ pageId \in DOMAIN pageTable
            /\ pageId \in uncommitted \cup DOMAIN committed
         THEN Install(committed, pageId,
                      Observable(frames[pageTable[pageId]].page))
         ELSE committed
    /\ held' = IF held.paired /\ held.n[pageId] > 0
               THEN [held EXCEPT !.n[pageId] = @ - 1] ELSE Unpaired
    /\ UNCHANGED <<pageTable, disk, mods, q, p, allocs>>

FlushAllPages ==
    /\ Alive
    /\ LET r == flushAllPages(frames, disk)
       IN  frames' = r.frames /\ disk' = r.disk
    /\ last' = Call("flushAllPages", -1, -1, "")
    /\ UNCHANGED <<pageTable, clock, mods, uncommitted, committed, q, p, allocs,
                   held>>

\* A caller inserts a record through the handle of a pinned frame.
ClientInsert(f, record) ==
    /\ Alive
    /\ frames[f].pinCount > 0
    /\ mods < MaxMods
    /\ frames[f].page.freeSpaceOffset + Len(record) <= MaxData
    /\ LET r == insertRecord(frames[f].page, record)
       IN  /\ frames' = [frames EXCEPT ![f].page = r.page]
           /\ last' = Call("insertRecord", frames[f].page.pageId, r.ret, "")
    /\ mods' = mods + 1
    /\ uncommitted' = uncommitted \cup {frames[f].page.pageId}
    /\ UNCHANGED <<pageTable, disk, clock, committed, q, p, allocs, held>>

\* BufferPool::~BufferPool, run by a caller that holds no pin.
DestroyPool ==
    /\ Alive
    /\ \A i \in FrameIds : frames[i].pinCount = 0
    /\ LET r == flushAllPages(frames, disk)
       IN  frames' = r.frames /\ disk' = r.disk
    /\ last' = Call("~BufferPool", -1, -1, "")
    /\ UNCHANGED <<pageTable, clock, mods, uncommitted, committed, q, p, allocs,
                   held>>

Next ==
    \/ \E pageId \in PageIds, isWrite \in BOOLEAN : FixPage(pageId, isWrite)
    \/ \E pageId \in PageIds, isDirty \in BOOLEAN : UnfixPage(pageId, isDirty)
    \/ FlushAllPages
    \/ \E f \in FrameIds, record \in Records : ClientInsert(f, record)
    \/ DestroyPool

Spec == Init /\ [][Next]_vars

\* ------------------------------------------------------- pool properties
Pinned(frs) == {i \in FrameIds : frs[i].pinCount > 0}

\* The page image readPage would hand to a fresh Page through a DiskManager
\* newly opened on the file, as the caller observes it; "none" if it fails.
ReadBack(file, pageId) ==
    LET r == readPage(OpenDisk(file), pageId, EmptyPage)
    IN  IF r.ok THEN Observable(r.page) ELSE "none"

\* C1 (pin safety): while a frame is pinned, a fixPage for any other page id
\* changes neither that frame's page (id and content) nor the page table entry
\* of its page id: a pinned frame is never the victim and never taken as empty.
C1_PinSafety ==
    [][\A i \in FrameIds :
         ( /\ frames[i].pinCount > 0
           /\ last'.op = "fixPage"
           /\ last'.pageId # frames[i].page.pageId )
         => /\ frames'[i].page = frames[i].page
            /\ frames'[i].pinCount = frames[i].pinCount
            /\ frames[i].page.pageId \in DOMAIN pageTable
            /\ frames[i].page.pageId \in DOMAIN pageTable'
            /\ pageTable'[frames[i].page.pageId] = i]_vars

\* A fixPage has just evicted a frame and loaded another page while the other
\* frame stayed pinned.
C1_Witness ==
    /\ last.op = "fixPage" /\ last.path = "evict" /\ last.ret # NULL
    /\ \E i \in FrameIds : /\ i # last.ret
                           /\ frames[i].pinCount > 0
                           /\ frames[i].page.pageId # last.pageId

\* C2 (dirty write-back): when fixPage evicts a dirty frame holding page X, the
\* image of X on disk after the call equals the frame's page at the moment of
\* eviction; and a page loaded again by a later fixPage has the content it had
\* at its last unfixPage(.., true).
C2_DirtyWriteBack ==
    [][( (last'.op = "fixPage" /\ last'.path = "evict")
         => LET v == findVictim(frames)
                X == frames[v].page.pageId
            IN  (frames[v].isDirty /\ X # -1)
                => ReadBack(disk'.file, X) = Observable(frames[v].page) )
       /\ ( ( /\ last'.op = "fixPage"
              /\ last'.path \in {"empty", "evict"}
              /\ last'.ret # NULL
              /\ last'.pageId \in DOMAIN committed )
            => Observable(frames'[last'.ret].page) = committed[last'.pageId] )]_vars

\* C3 (page-table invariant): the page table is a bijection between its keys
\* and the non-empty frames: every frame whose page id is not -1 has the entry
\* page id -> its index, and every entry points at the frame holding that id.
C3_PageTableBijection ==
    /\ \A i \in FrameIds :
         frames[i].page.pageId # -1
         => /\ frames[i].page.pageId \in DOMAIN pageTable
            /\ pageTable[frames[i].page.pageId] = i
    /\ \A k \in DOMAIN pageTable :
         /\ pageTable[k] \in FrameIds
         /\ frames[pageTable[k]].page.pageId = k

\* C4 (unfix no-op): unfixPage of a page id that is not in the page table, or
\* whose frame has pinCount = 0, changes no frame, nor the page table, nor the
\* disk.
C4_UnfixNoOp ==
    [][( /\ last'.op = "unfixPage"
         /\ \/ last'.pageId \notin DOMAIN pageTable
            \/ frames[pageTable[last'.pageId]].pinCount = 0 )
       => /\ frames' = frames
          /\ pageTable' = pageTable
          /\ disk' = disk]_vars

\* The unpinned frame accessed least recently, the lowest index among equals.
LeastRecentlyUsed(frs) ==
    CHOOSE i \in FrameIds :
      \A j \in FrameIds :
        \/ frs[i].lastAccessTime < frs[j].lastAccessTime
        \/ frs[i].lastAccessTime = frs[j].lastAccessTime /\ i <= j

\* C5 (LRU order): with every frame holding a page and unpinned, a fixPage for
\* a page that is not in the page table evicts the frame with the smallest
\* access time (the lowest index among equals): that frame's page id leaves the
\* page table, the new page (if it loads) goes into that frame, and every other
\* frame and page table entry is left as it was.
C5_LruOrder ==
    [][( /\ \A i \in FrameIds : frames[i].page.pageId # -1 /\ frames[i].pinCount = 0
         /\ last'.op = "fixPage"
         /\ last'.pageId \notin DOMAIN pageTable )
       => LET v == LeastRecentlyUsed(frames)
          IN  /\ last'.path = "evict"
              /\ last'.ret \in {v, NULL}
              /\ \A k \in DOMAIN pageTable' :
                   k = last'.pageId \/ (k \in DOMAIN pageTable /\ pageTable[k] # v)
              /\ \A i \in FrameIds \ {v} :
                   /\ frames'[i] = frames[i]
                   /\ frames[i].page.pageId \in DOMAIN pageTable
                      => /\ frames[i].page.pageId \in DOMAIN pageTable'
                         /\ pageTable'[frames[i].page.pageId] = i]_vars

\* A fixPage has just evicted frame 1 although frame 0 was unpinned too: frame
\* 1 was the one accessed least recently.
C5_Witness ==
    /\ PoolSize > 1
    /\ last.op = "fixPage" /\ last.path = "evict" /\ last.ret = 1
    /\ \A i \in FrameIds \ {1} : frames[i].pinCount = 0 /\ frames[i].page.pageId # -1

\* C7 (pool exhausted): with every frame pinned, fixPage for a page id that is
\* not in the page table returns null and changes no frame, nor the page
\* table, nor the disk.
C7_PoolExhausted ==
    [][( /\ \A i \in FrameIds : frames[i].pinCount > 0
         /\ last'.op = "fixPage"
         /\ last'.pageId \notin DOMAIN pageTable )
       => /\ last'.ret = NULL
          /\ frames' = frames
          /\ pageTable' = pageTable
          /\ disk' = disk]_vars

\* fixPage has just returned null because every frame is pinned.
C7_Witness ==
    /\ last.op = "fixPage" /\ last.ret = NULL /\ last.path = "full"
    /\ last.pageId \notin DOMAIN pageTable
    /\ \A i \in FrameIds : frames[i].pinCount > 0

\* C6 (availability): with at most PoolSize - 1 distinct pages pinned, fixPage
\* returns a page for every page id in the page table and for every page id
\* that exists on disk (0 <= pageId < numPages).
C6_Availability ==
    [][( /\ last'.op = "fixPage"
         /\ Cardinality({frames[i].page.pageId : i \in Pinned(frames)}) <= PoolSize - 1
         /\ \/ last'.pageId \in DOMAIN pageTable
            \/ 0 <= last'.pageId /\ last'.pageId < disk.numPages )
       => last'.ret # NULL]_vars

\* C8 (shutdown flush): once the pool is destroyed with no frame pinned, a
\* fresh DiskManager reads, for every page unfixed with markDirty = true, the
\* content the page had at its last such unfix (for a page never modified, the
\* content it had in the file when the pool was created).
C8_ShutdownFlush ==
    last.op = "~BufferPool"
    => /\ \A X \in DOMAIN committed : ReadBack(disk.file, X) = committed[X]
       /\ \A X \in (0..(InitPages - 1)) \ DOMAIN committed :
            ReadBack(disk.file, X) = ReadBack(AllocatedFile(InitPages), X)

\* C16 (state after a failed fix): when fixPage returns null because the read
\* failed, no pinCount has changed and the frame involved has pinCount 0, the
\* requested page id is not in the page table, on the eviction path the
\* victim's page id has left the page table and the victim, if dirty, is on
\* disk as it was in the frame, and on the empty-frame path frames and page
\* table are unchanged.
C16_FailedFix ==
    [][( /\ last'.op = "fixPage"
         /\ last'.ret = NULL
         /\ last'.path \in {"empty", "evict"} )
       => /\ \A i \in FrameIds : frames'[i].pinCount = frames[i].pinCount
          /\ last'.pageId \notin DOMAIN pageTable'
          /\ last'.path = "empty"
             => /\ frames'[FindEmpty(frames)].pinCount = 0
                /\ frames' = frames
                /\ pageTable' = pageTable
          /\ last'.path = "evict"
             => LET v == findVictim(frames)
                    X == frames[v].page.pageId
                IN  /\ frames'[v].pinCount = 0
                    /\ X \notin DOMAIN pageTable'
                    /\ (frames[v].isDirty /\ X # -1)
                       => ReadBack(disk'.file, X) = Observable(frames[v].page)]_vars

\* C17 (pin count is a balanced refcount): every pinCount is >= 0 in every
\* state, also after unmatched unfixPage calls; a successful fixPage raises the
\* pinCount of the frame it returns by exactly 1 (to 1 on a miss) and changes
\* no other pinCount; and while every unfixPage matches an earlier successful
\* fixPage, each frame's pinCount is the number of fixes of its page not yet
\* unfixed.
C17_PinRefcount ==
    /\ [](\A i \in FrameIds : frames[i].pinCount >= 0)
    /\ [][( last'.op = "fixPage" /\ last'.ret # NULL )
          => /\ frames'[last'.ret].pinCount = frames[last'.ret].pinCount + 1
             /\ last'.path # "hit" => frames'[last'.ret].pinCount = 1
             /\ \A i \in FrameIds \ {last'.ret} :
                  frames'[i].pinCount = frames[i].pinCount]_vars
    /\ [](held.paired
          => /\ \A i \in FrameIds :
                  frames[i].pinCount
                    = IF frames[i].page.pageId \in DOMAIN pageTable
                      THEN held.n[frames[i].page.pageId] ELSE 0
             /\ \A id \in PageIds :
                  held.n[id] > 0 => id \in DOMAIN pageTable)

\* After two fixPage calls for a page and one matching unfixPage the page's
\* frame has pinCount 1.
C17_Witness ==
    /\ last.op = "unfixPage" /\ held.paired
    /\ last.pageId \in DOMAIN pageTable
    /\ frames[pageTable[last.pageId]].pinCount = 1
    /\ held.n[last.pageId] = 1

\* C18 (flushAllPages): after the call every frame that was dirty, unpinned
\* and held a page has dirty = false and its page on disk equals its page in
\* memory; a pinned frame is not written and keeps its dirty flag; no
\* pinCount, resident page or page table entry changes.
C18_FlushAllPages ==
    [][last'.op = "flushAllPages"
       => /\ pageTable' = pageTable
          /\ \A i \in FrameIds :
               LET X == frames[i].page.pageId
               IN  /\ frames'[i].pinCount = frames[i].pinCount
                   /\ frames'[i].page = frames[i].page
                   /\ (frames[i].isDirty /\ frames[i].pinCount = 0 /\ X # -1)
                      => /\ ~frames'[i].isDirty
                         /\ ReadBack(disk'.file, X) = Observable(frames'[i].page)
                   /\ frames[i].pinCount > 0
                      => /\ frames'[i].isDirty = frames[i].isDirty
                         /\ ReadBack(disk'.file, X) = ReadBack(disk.file, X)]_vars

\* C19 (no page is resident twice): in every state no two frames hold the
\* same page id other than -1, also after fixPage calls that failed once
\* eviction had begun.
C19_NoDuplicateResident ==
    \A i, j \in FrameIds :
      (i # j /\ frames[i].page.pageId # -1)
      => frames[i].page.pageId # frames[j].page.pageId

\* fixPage has just been called for a page id that a frame still holds
\* although an earlier failed fixPage removed it from the page table, and the
\* other frame was free to be the victim.
C19_Witness ==
    /\ last.op = "fixPage" /\ last.path = "evict"
    /\ last.pageId \notin DOMAIN pageTable
    /\ \E i \in FrameIds :
         /\ frames[i].page.pageId = last.pageId
         /\ \E j \in FrameIds \ {i} :
              /\ frames[j].pinCount = 0
              /\ frames[j].page.pageId \notin DOMAIN pageTable
              /\ frames[j].page.pageId # -1

\* ------------------------------------------------- DiskManager, directly
\* The callers of DiskSpec use the DiskManager directly, with page ids
\* -1..MaxDiskPages and the pages below.
DiskPageIds == (-1)..MaxDiskPages

\* The pages reached from `pages` by one insertRecord or deleteRecord.
PageStep(pages) ==
    pages
    \cup {insertRecord(pg, r).page :
            pg \in {x \in pages : x.freeSpaceOffset < MaxData},
            r \in {x \in Records : Len(x) = 1}}
    \cup {deleteRecord(pg, 0).page : pg \in pages}

\* The pages reached from the empty page by at most n inserts and deletes.
RECURSIVE PagesWithin(_)
PagesWithin(n) ==
    IF n = 0 THEN {EmptyPage} ELSE PageStep(PagesWithin(n - 1))

\* The pages the callers write: the pages reached by at most two inserts and
\* deletes, with a page id set.
TestPages == {setPageId(pg, 0) : pg \in PagesWithin(2)}

\* A DiskManager opened on a file of n pages (none if the file is new).
DiskInit ==
    /\ \E n \in 0..(MaxDiskPages - 1) :
         /\ disk = OpenDisk(AllocatedFile(n))
         /\ allocs = [n |-> n, k |-> 0, appends |-> 0]
    /\ frames = [i \in FrameIds |->
                   [page |-> EmptyPage, pinCount |-> 0, isDirty |-> FALSE,
                    lastAccessTime |-> 0]]
    /\ pageTable = [k \in {} |-> 0]
    /\ clock = 0
    /\ last = Call("DiskManager", -1, -1, "")
    /\ mods = 0
    /\ uncommitted = {}
    /\ committed = [k \in {} |-> 0]
    /\ q = EmptyPage
    /\ p = EmptyPage
    /\ held = NoneHeld

ReadPage(pageId) ==
    /\ LET r == readPage(disk, pageId, q)
       IN  /\ disk' = r.dm
           /\ q' = r.page
           /\ last' = Call("readPage", pageId, r.ok, "")
    /\ UNCHANGED <<poolVars, p, allocs>>

WritePage(pageId, page) ==
    /\ pageId = disk.numPages => disk.numPages < MaxDiskPages
    /\ LET w == writePage(disk, pageId, page)
       IN  /\ disk' = w.dm
           /\ last' = Call("writePage", pageId, w.ok, "")
           /\ allocs' = IF w.ok /\ pageId = disk.numPages
                        THEN [allocs EXCEPT !.appends = @ + 1] ELSE allocs
    /\ p' = page
    /\ UNCHANGED <<poolVars, q>>

AllocateNewPage ==
    /\ disk.numPages < MaxDiskPages
    /\ LET a == allocateNewPage(disk)
       IN  /\ disk' = a.dm
           /\ last' = Call("allocateNewPage", -1, a.ret, "")
           /\ allocs' = IF a.ret # -1 THEN [allocs EXCEPT !.k = @ + 1] ELSE allocs
    /\ UNCHANGED <<poolVars, q, p>>

DiskNext ==
    \/ \E pageId \in DiskPageIds : ReadPage(pageId)
    \/ \E pageId \in DiskPageIds, page \in TestPages : WritePage(pageId, page)
    \/ AllocateNewPage

DiskSpec == DiskInit /\ [][DiskNext]_vars

\* C9 (disk round-trip): for every id with 0 <= id <= numPages, writePage(id, p)
\* returns true, and a readPage(id, q) right after it returns true with q equal
\* to p in page id, freeSpaceOffset, numberOfSlots, record bytes and slot
\* directory.
C9_DiskRoundTrip ==
    [][/\ ( /\ last'.op = "writePage"
            /\ 0 <= last'.pageId
            /\ last'.pageId <= disk.numPages )
          => last'.ret = TRUE
       /\ ( /\ last.op = "writePage"
            /\ 0 <= last.pageId
            /\ last.pageId < disk.numPages
            /\ last'.op = "readPage"
            /\ last'.pageId = last.pageId )
          => /\ last'.ret = TRUE
             /\ Observable(q') = Observable(p)]_vars

\* C20 (a failed disk operation does not impair later ones): right after a
\* readPage or writePage that returned false, readPage of an id in
\* [0, numPages) returns true and hands over the page of the file, and
\* writePage of an id in [0, numPages] returns true and puts the page into the
\* file.
C20_FailureDoesNotImpair ==
    [][( last.op \in {"readPage", "writePage"} /\ last.ret = FALSE )
       => /\ ( /\ last'.op = "readPage"
               /\ 0 <= last'.pageId
               /\ last'.pageId < disk.numPages )
             => /\ last'.ret = TRUE
                /\ Observable(q') = ReadBack(disk.file, last'.pageId)
          /\ ( /\ last'.op = "writePage"
               /\ 0 <= last'.pageId
               /\ last'.pageId <= disk.numPages )
             => /\ last'.ret = TRUE
                /\ ReadBack(disk'.file, last'.pageId) = Observable(p')]_vars

\* C10 (append allocation), as stated: from a DiskManager whose numPages is n,
\* the k-th successful allocateNewPage returns n + k - 1 and raises numPages by
\* exactly 1, a failed one (-1) leaves numPages unchanged, and writePage to an
\* id < numPages does not change numPages.
C10_AppendAllocation ==
    [][/\ (last'.op = "allocateNewPage" /\ last'.ret # -1)
          => /\ last'.ret = allocs.n + allocs'.k - 1
             /\ getNumberOfPages(disk') = getNumberOfPages(disk) + 1
       /\ (last'.op = "allocateNewPage" /\ last'.ret = -1)
          => getNumberOfPages(disk') = getNumberOfPages(disk)
       /\ (last'.op = "writePage" /\ last'.pageId < disk.numPages)
          => getNumberOfPages(disk') = getNumberOfPages(disk)]_vars

\* C10, amended: a successful allocateNewPage returns the value numPages had
\* before the call, which is n + k - 1 plus the number of pages appended by
\* writePage(numPages, ..) since construction, and raises numPages by exactly
\* 1; a failed one leaves numPages unchanged; writePage to an id < numPages
\* does not change numPages.
C10_AppendAllocationAmended ==
    [][/\ (last'.op = "allocateNewPage" /\ last'.ret # -1)
          => /\ last'.ret = getNumberOfPages(disk)
             /\ last'.ret = allocs.n + allocs'.k - 1 + allocs.appends
             /\ allocs'.k = allocs.k + 1
             /\ getNumberOfPages(disk') = getNumberOfPages(disk) + 1
       /\ (last'.op = "allocateNewPage" /\ last'.ret = -1)
          => getNumberOfPages(disk') = getNumberOfPages(disk)
       /\ (last'.op = "writePage" /\ last'.pageId < disk.numPages)
          => getNumberOfPages(disk') = getNumberOfPages(disk)]_vars

\* A second allocateNewPage has just succeeded.
C10_Witness ==
    /\ last.op = "allocateNewPage" /\ last.ret # -1
    /\ allocs.k = 2
    /\ getNumberOfPages(disk) = allocs.n + allocs.k + allocs.appends

\* ------------------------------------------------------- Page, directly
\* sizeof(data): the data area of a page.
DataAreaSize == PAGE_SIZE - HeaderSize

\* The short records the callers of a Page insert.
SmallRecords == {<<1>>, <<2, 3>>}

\* Page::Page(), data holding the prefix that MaxSlots short records can use.
PrefixPage == [EmptyPage EXCEPT !.data = [i \in 1..(2 * MaxSlots) |-> 0]]

\* A Page object that held other content before: MaxSlots records <<7, 7>>.
RECURSIVE UsedPage(_)
UsedPage(n) ==
    IF n = 0 THEN PrefixPage ELSE insertRecord(UsedPage(n - 1), <<7, 7>>).page

\* A Page just constructed (q).
PageInit ==
    /\ q = PrefixPage
    /\ p = EmptyPage
    /\ last = Call("Page", -1, -1, "")
    /\ disk = OpenDisk(<<>>)
    /\ frames = [i \in FrameIds |->
                   [page |-> EmptyPage, pinCount |-> 0, isDirty |-> FALSE,
                    lastAccessTime |-> 0]]
    /\ pageTable = [k \in {} |-> 0]
    /\ clock = 0
    /\ mods = 0
    /\ uncommitted = {}
    /\ committed = [k \in {} |-> 0]
    /\ allocs = [n |-> 0, k |-> 0, appends |-> 0]
    /\ held = NoneHeld

\* q.insertRecord(record, Len(record)); the callers stop at MaxSlots records.
InsertRecord(record) ==
    /\ q.numberOfSlots < MaxSlots
    /\ LET r == insertRecord(q, record)
       IN  /\ q' = r.page
           /\ last' = Call("insertRecord", Len(record), r.ret, "")
    /\ UNCHANGED <<poolVars, disk, p, allocs>>

\* q.deleteRecord(slotId)
DeleteRecord(slotId) ==
    /\ LET r == deleteRecord(q, slotId)
       IN  /\ q' = r.page
           /\ last' = Call("deleteRecord", slotId, r.ret, "")
    /\ UNCHANGED <<poolVars, disk, p, allocs>>

\* q.serialize(buffer); target.deserialize(buffer): the callers go on with the
\* Page object target, which is fresh or has held other content.
RoundTrip(target) ==
    /\ q' = deserialize(target, serialize(q))
    /\ last' = Call("deserialize", -1, -1, "")
    /\ UNCHANGED <<poolVars, disk, p, allocs>>

PageNext ==
    \/ \E record \in SmallRecords : InsertRecord(record)
    \/ \E slotId \in (-1)..MaxSlots : DeleteRecord(slotId)
    \/ \E target \in {PrefixPage, UsedPage(MaxSlots)} : RoundTrip(target)

PageSpec == PageInit /\ [][PageNext]_vars

\* C11 (compaction invariant): after any sequence of insertRecord and
\* deleteRecord calls on a page that started empty, the records tile
\* data[0..freeSpaceOffset) in slot-directory order: slot 0 starts at 0, every
\* next slot starts where the previous one ends, the last one ends at
\* freeSpaceOffset, and 0 <= freeSpaceOffset <= D - numberOfSlots * S.
C11_Compaction ==
    LET n == q.numberOfSlots
        sd == q.slotDirectory
    IN  /\ Len(sd) = n
        /\ n > 0 => sd[1].offset = 0
        /\ \A i \in 1..(n - 1) : sd[i + 1].offset = sd[i].offset + sd[i].length
        /\ \A i \in 1..n : sd[i].length > 0 /\ sd[i].isValid
        /\ q.freeSpaceOffset = IF n = 0 THEN 0 ELSE sd[n].offset + sd[n].length
        /\ 0 <= q.freeSpaceOffset
        /\ q.freeSpaceOffset <= DataAreaSize - n * SlotSize

\* A record that was not the last one has just been deleted and at least two
\* records remain.
C11_Witness ==
    /\ last.op = "deleteRecord" /\ last.ret = TRUE
    /\ last.pageId < q.numberOfSlots
    /\ q.numberOfSlots >= 2

\* C12 (delete semantics): a successful deleteRecord(s) lowers numberOfSlots by
\* one, leaves getRecord(i) as it was for i < s, makes getRecord(i) return what
\* getRecord(i + 1) returned for i >= s, and lowers freeSpaceOffset by the
\* length of the deleted record; deleteRecord with s out of range returns false
\* and leaves the page unchanged.
C12_DeleteSemantics ==
    [][last'.op = "deleteRecord"
       => LET s == last'.pageId
              n == q.numberOfSlots
          IN  /\ (s < 0 \/ s >= n) => (last'.ret = FALSE /\ q' = q)
              /\ last'.ret = TRUE
                 => /\ 0 <= s /\ s < n
                    /\ q'.numberOfSlots = n - 1
                    /\ \A i \in 0..(s - 1) : getRecord(q', i) = getRecord(q, i)
                    /\ \A i \in s..(n - 2) : getRecord(q', i) = getRecord(q, i + 1)
                    /\ getRecord(q', n - 1).ret = -1
                    /\ q'.freeSpaceOffset
                         = q.freeSpaceOffset - q.slotDirectory[s + 1].length]_vars

\* The first of three records has just been deleted: the record <<2, 3>> that
\* was in slot 1 is now in slot 0, and a record of one byte follows it.
C12_Witness ==
    /\ last.op = "deleteRecord" /\ last.ret = TRUE /\ last.pageId = 0
    /\ q.numberOfSlots = 2
    /\ getRecord(q, 0).bytes = <<2, 3>>
    /\ getRecord(q, 1).bytes = <<1>>

\* C14 (page round-trip): deserializing serialize(q) into a Page object, fresh
\* or used before, gives a page equal to q in the header fields, in the bytes
\* data[0..freeSpaceOffset) and in the slot directory, so that getRecord
\* returns the same for every slot id.
C14_PageRoundTrip ==
    [][last'.op = "deserialize"
       => /\ q'.pageId = q.pageId /\ q'.dirty = q.dirty /\ q'.lsn = q.lsn
          /\ q'.freeSpaceOffset = q.freeSpaceOffset
          /\ q'.numberOfSlots = q.numberOfSlots
          /\ SubSeq(q'.data, 1, q'.freeSpaceOffset)
               = SubSeq(q.data, 1, q.freeSpaceOffset)
          /\ q'.slotDirectory = q.slotDirectory
          /\ \A i \in (-1)..MaxSlots : getRecord(q', i) = getRecord(q, i)]_vars

\* A page of two records has just been deserialized into a Page object that
\* held other content: its bytes show beyond freeSpaceOffset.
C14_Witness ==
    /\ last.op = "deserialize"
    /\ q.numberOfSlots = 2 /\ q.dirty
    /\ getRecord(q, 1).ret > 0
    /\ \E i \in DOMAIN q.data : i > q.freeSpaceOffset /\ q.data[i] = 7

\* ------------------------------------------- Page, with its whole data area
\* The records of FullPageSpec: the short ones and one that leaves room for
\* exactly one more record of two bytes and its slot.
PageRecords ==
    SmallRecords \cup {[i \in 1..(DataAreaSize - 2 * SlotSize - 2) |-> 9]}

\* Page::Page() with the whole data area.
WholePage == [EmptyPage EXCEPT !.data = [i \in 1..DataAreaSize |-> 0]]

\* A Page just constructed (q), all of its data area.
FullPageInit ==
    /\ q = WholePage
    /\ p = EmptyPage
    /\ last = Call("Page", -1, -1, "")
    /\ disk = OpenDisk(<<>>)
    /\ frames = [i \in FrameIds |->
                   [page |-> EmptyPage, pinCount |-> 0, isDirty |-> FALSE,
                    lastAccessTime |-> 0]]
    /\ pageTable = [k \in {} |-> 0]
    /\ clock = 0
    /\ mods = 0
    /\ uncommitted = {}
    /\ committed = [k \in {} |-> 0]
    /\ allocs = [n |-> 0, k |-> 0, appends |-> 0]
    /\ held = NoneHeld

\* q.insertRecord(record, Len(record)), one of at most MaxPageOps calls.
InsertInto(record) ==
    /\ mods < MaxPageOps
    /\ LET r == insertRecord(q, record)
       IN  /\ q' = r.page
           /\ last' = Call("insertRecord", Len(record), r.ret, "")
    /\ mods' = mods + 1
    /\ UNCHANGED <<frames, pageTable, clock, uncommitted, committed, disk, p,
                   allocs, held>>

\* q.deleteRecord(slotId), one of at most MaxPageOps calls.
DeleteFrom(slotId) ==
    /\ mods < MaxPageOps
    /\ LET r == deleteRecord(q, slotId)
       IN  /\ q' = r.page
           /\ last' = Call("deleteRecord", slotId, r.ret, "")
    /\ mods' = mods + 1
    /\ UNCHANGED <<frames, pageTable, clock, uncommitted, committed, disk, p,
                   allocs, held>>

FullPageNext ==
    \/ \E record \in PageRecords : InsertInto(record)
    \/ \E slotId \in 0..(MaxPageOps - 1) : DeleteFrom(slotId)

FullPageSpec == FullPageInit /\ [][FullPageNext]_vars

\* C13 (page full): insertRecord of length > 0 returns -1 exactly when
\* getFreeSpace() < length + S; then the page is unchanged; otherwise it
\* returns the previous numberOfSlots and getFreeSpace() drops by length + S.
C13_PageFull ==
    [][last'.op = "insertRecord"
       => LET length == last'.pageId
          IN  /\ length > 0
              /\ (last'.ret = -1) <=> (getFreeSpace(q) < length + SlotSize)
              /\ last'.ret = -1
                 => /\ q' = q
                    /\ \A i \in 0..(q.numberOfSlots - 1) :
                         getRecord(q', i) = getRecord(q, i)
              /\ last'.ret # -1
                 => /\ last'.ret = q.numberOfSlots
                    /\ getFreeSpace(q') = getFreeSpace(q) - (length + SlotSize)]_vars

\* insertRecord has just returned -1 on a page of two records with less than
\* S + 1 bytes free.
C13_Witness ==
    /\ last.op = "insertRecord" /\ last.ret = -1
    /\ q.numberOfSlots = 2
    /\ getFreeSpace(q) < SlotSize + 1

\* ------------------------------------------------- offsets in large files
\* The number of pages in 2^31 bytes: the first page id whose byte offset does
\* not fit a 32-bit int.
PagesIn2GiB == (1024 * 2048) \div (PAGE_SIZE \div 1024)

\* The page ids the callers of OffsetSpec use: within MaxDelta of 0, of 2^31
\* bytes and of 2^32 bytes.
OffsetPageIds ==
    {b + d : b \in {0, PagesIn2GiB, 2 * PagesIn2GiB}, d \in (-MaxDelta)..MaxDelta}
    \cap Nat

\* A DiskManager opened on a file of allocs.n pages, up to 4 GiB and more; the
\* content of the file is left out, only the offsets are followed.
OffsetInit ==
    /\ allocs \in {[n |-> n, k |-> 0, appends |-> 0] :
                     n \in {MaxDelta, PagesIn2GiB, 2 * PagesIn2GiB + MaxDelta}}
    /\ last = Call("DiskManager", -1, -1, "")
    /\ disk = OpenDisk(<<>>)
    /\ frames = [i \in FrameIds |->
                   [page |-> EmptyPage, pinCount |-> 0, isDirty |-> FALSE,
                    lastAccessTime |-> 0]]
    /\ pageTable = [k \in {} |-> 0]
    /\ clock = 0
    /\ mods = 0
    /\ uncommitted = {}
    /\ committed = [k \in {} |-> 0]
    /\ q = EmptyPage
    /\ p = EmptyPage
    /\ held = NoneHeld

\* readPage(pageId, ..) up to its seekg: last.ret is the offset.
SeekRead(pageId) ==
    /\ pageId <= allocs.n
    /\ last' = Call("seekg", pageId, readOffset(pageId), "")
    /\ UNCHANGED <<poolVars, disk, q, p, allocs>>

\* writePage(pageId, ..) up to its seekp: last.ret is the offset.
SeekWrite(pageId) ==
    /\ pageId <= allocs.n
    /\ last' = Call("seekp", pageId, writeOffset(allocs.n, pageId), "")
    /\ UNCHANGED <<poolVars, disk, q, p, allocs>>

OffsetNext ==
    \/ \E pageId \in OffsetPageIds : SeekRead(pageId)
    \/ \E pageId \in OffsetPageIds : SeekWrite(pageId)

OffsetSpec == OffsetInit /\ [][OffsetNext]_vars

\* C15 (64-bit offsets): for every page id in [0, numPages] the offset readPage
\* and writePage seek to is pageId * PAGE_SIZE, that is pageId in units of
\* PAGE_SIZE bytes: never wrapped modulo 2^32 and never negative.
C15_Offsets64 ==
    last.op \in {"seekg", "seekp"}
    => /\ last.ret >= 0
       /\ last.ret = last.pageId

====
